---- MODULE Spec2Model ----
(***************************************************************************)
(* Model of the controls-study simulations:                                *)
(*   controls/pid_walking.py          PID loop engine and its animation    *)
(*   dynamic_systems/mass_spring_damper.py   modal properties, step        *)
(*                                    response, damping classification     *)
(*   practice/mass_spring_damper.py   bare step response                   *)
(*                                                                         *)
(* Numbers.  The PID engine only adds, subtracts, multiplies and divides.  *)
(* Its inputs are drawn from dyadic rationals of small magnitude, on which *)
(* IEEE-754 double arithmetic is exact, so a float is modelled by the      *)
(* exact rational <<numerator, denominator>> it holds.                     *)
(* The second-order script takes square roots, so its floats are modelled  *)
(* in decimal fixed point with seven places, truncating, together with the *)
(* IEEE special values nan, inf and -inf.                                  *)
(***************************************************************************)
EXTENDS Integers, Sequences, FiniteSets, TLC

(***************************************************************************)
(* Bounds of the model.                                                    *)
(***************************************************************************)
MaxRuns == 2        \* calls of simulate_pid_control in one process
MaxTicks == 4       \* T_MAX ranges up to MaxTicks half-seconds
MaxTarget == 2      \* DESIRED_LOCATION ranges over -1..MaxTarget
MaxOffset == 12     \* damping b ranges 2*MaxOffset units either side of critical

(***************************************************************************)
(* Exact rational arithmetic: <<n, d>> with d > 0 and gcd(n, d) = 1.       *)
(***************************************************************************)
Abs(n) == IF n < 0 THEN -n ELSE n

RECURSIVE GCD(_, _)
GCD(a, b) == IF b = 0 THEN a ELSE GCD(b, a % b)

Rat(n, d) ==
  LET s == IF d < 0 THEN -1 ELSE 1
      g == GCD(Abs(n), Abs(d))
  IN  <<(s * n) \div g, (s * d) \div g>>

Zero == <<0, 1>>
One == <<1, 1>>

RAdd(x, y) == Rat(x[1] * y[2] + y[1] * x[2], x[2] * y[2])
RSub(x, y) == Rat(x[1] * y[2] - y[1] * x[2], x[2] * y[2])
RMul(x, y) == Rat(x[1] * y[1], x[2] * y[2])
RDiv(x, y) == Rat(x[1] * y[2], x[2] * y[1])
RLt(x, y) == x[1] * y[2] < y[1] * x[2]
RLe(x, y) == x[1] * y[2] <= y[1] * x[2]
RAbs(x) == <<Abs(x[1]), x[2]>>
\* math.ceil of a rational, as an integer
Ceil(x) == -((-x[1]) \div x[2])

(***************************************************************************)
(* Decimal fixed point: the integer n stands for n / Scale.  Every         *)
(* intermediate value stays below 2^31.                                    *)
(***************************************************************************)
Scale == 10^7
Fix(n) == n * Scale
Sign(n) == IF n < 0 THEN -1 ELSE 1

\* a * c / Scale, truncated toward zero, by splitting both factors
FMul(a, c) ==
  LET ah == Abs(a) \div 10^4
      al == Abs(a) % 10^4
      ch == Abs(c) \div 10^4
      cl == Abs(c) % 10^4
      mid == ah * cl + al * ch
      low == ((mid % 1000) * 10^4 + al * cl) \div Scale
  IN  Sign(a) * Sign(c) * (ah * ch * 10 + mid \div 1000 + low)

\* the next `places` decimal digits of rem / c, long division
RECURSIVE Digits(_, _, _, _)
Digits(rem, c, places, acc) ==
  IF places = 0 THEN acc
  ELSE Digits((rem * 10) % c, c, places - 1, acc * 10 + (rem * 10) \div c)

\* a * Scale / c for c # 0, truncated toward zero
FDiv(a, c) ==
  LET q == Abs(a) \div Abs(c)
      r == Abs(a) % Abs(c)
  IN  Sign(a) * Sign(c) * Digits(r, Abs(c), 7, q)

\* integer square root by Newton's iteration
RECURSIVE Newton(_, _)
Newton(n, r) ==
  LET r2 == (r + n \div r) \div 2
  IN  IF r2 >= r THEN r ELSE Newton(n, r2)

ISqrt(n) == IF n = 0 THEN 0 ELSE Newton(n, n)

\* `places` further decimal digits of a square root, digit by digit
RECURSIVE RootDigits(_, _, _)
RootDigits(root, rem, places) ==
  IF places = 0 THEN root
  ELSE LET r == rem * 100
           d == CHOOSE e \in 0..9 :
                  /\ (20 * root + e) * e <= r
                  /\ e = 9 \/ (20 * root + e + 1) * (e + 1) > r
       IN  RootDigits(root * 10 + d, r - (20 * root + d) * d, places - 1)

\* sqrt(a / Scale) * Scale for a >= 0, truncated
FSqrt(a) ==
  LET n == a * 10
      r0 == ISqrt(n)
  IN  RootDigits(r0, n - r0 * r0, 3)

(***************************************************************************)
(* Float values of the second-order script: <<"fin", n>>, the negative     *)
(* zero <<"negzero", 0>>, <<"nan", 0>>, <<"inf", 1>> and <<"inf", -1>>,    *)
(* with numpy's scalar semantics (an invalid operation warns and yields    *)
(* nan or inf; it does not raise).                                         *)
(***************************************************************************)
Fin(n) == <<"fin", n>>
NegZero == <<"negzero", 0>>
NaN == <<"nan", 0>>
Inf(sgn) == <<"inf", sgn>>
Unset == <<"unset", 0>>

IsFin(u) == u[1] \in {"fin", "negzero"}
IsNaN(u) == u[1] = "nan"
IsInf(u) == u[1] = "inf"
IsZero(u) == IsFin(u) /\ u[2] = 0
SignOf(u) == IF u[1] = "negzero" \/ u[2] < 0 THEN -1 ELSE 1
\* the finite value n, a zero taking the sign sgn
Signed(n, sgn) == IF n = 0 /\ sgn < 0 THEN NegZero ELSE Fin(n)

NSqrt(u) ==
  CASE IsNaN(u) -> NaN
    [] IsInf(u) -> IF u[2] > 0 THEN u ELSE NaN
    [] IsFin(u) -> IF u[2] < 0 THEN NaN
                   ELSE IF u[2] = 0 THEN u ELSE Fin(FSqrt(u[2]))

NMul(u, v) ==
  CASE IsNaN(u) \/ IsNaN(v) -> NaN
    [] IsFin(u) /\ IsFin(v) -> Signed(FMul(u[2], v[2]), SignOf(u) * SignOf(v))
    [] IsInf(u) /\ IsInf(v) -> Inf(u[2] * v[2])
    [] IsInf(u) /\ IsFin(v) -> IF v[2] = 0 THEN NaN ELSE Inf(u[2] * SignOf(v))
    [] IsFin(u) /\ IsInf(v) -> IF u[2] = 0 THEN NaN ELSE Inf(v[2] * SignOf(u))

NDiv(u, v) ==
  CASE IsNaN(u) \/ IsNaN(v) -> NaN
    [] IsInf(u) /\ IsInf(v) -> NaN
    [] IsInf(u) /\ IsFin(v) -> Inf(u[2] * SignOf(v))
    [] IsFin(u) /\ IsInf(v) -> Signed(0, SignOf(u) * v[2])
    [] IsFin(u) /\ IsFin(v) ->
         IF v[2] # 0 THEN Signed(FDiv(u[2], v[2]), SignOf(u) * SignOf(v))
         ELSE IF u[2] = 0 THEN NaN ELSE Inf(SignOf(u) * SignOf(v))

NSub(u, v) ==
  CASE IsNaN(u) \/ IsNaN(v) -> NaN
    [] IsFin(u) /\ IsFin(v) ->
         IF u = NegZero /\ v = Fin(0) THEN NegZero ELSE Fin(u[2] - v[2])
    [] IsInf(u) /\ IsFin(v) -> u
    [] IsFin(u) /\ IsInf(v) -> Inf(-v[2])
    [] IsInf(u) /\ IsInf(v) -> IF u[2] = v[2] THEN NaN ELSE u

NAbs(u) ==
  CASE IsNaN(u) -> NaN
    [] IsInf(u) -> Inf(1)
    [] IsFin(u) -> Fin(Abs(u[2]))

\* u < v; every comparison with nan is False
NLt(u, v) ==
  CASE IsNaN(u) \/ IsNaN(v) -> FALSE
    [] IsFin(u) /\ IsFin(v) -> u[2] < v[2]
    [] IsInf(u) /\ IsFin(v) -> u[2] < 0
    [] IsFin(u) /\ IsInf(v) -> v[2] > 0
    [] IsInf(u) /\ IsInf(v) -> u[2] < v[2]

(***************************************************************************)
(* State.                                                                  *)
(***************************************************************************)
VARIABLES
  prog,          \* the script this process runs
  pc,            \* where the process is
  \* pid_walking.py
  DESIRED_LOCATION, STARTING_POINT, K_P, K_I, K_D, DT, T_MAX,  \* module globals
  t, position, velocity, error,   \* the arrays of simulate_pid_control
  integral, prev_error,           \* its scalar locals
  i,             \* the loop index of range(num_frames)
  results,       \* what each completed call returned, in order
  frame,         \* the frame index last handed to animate, -1 before any
  frame_seq,     \* how many indices FuncAnimation's frame iterator has yielded
  artists,       \* what the figure shows: set by animate
  \* mass_spring_damper.py (both scripts)
  m, b, k,       \* module globals
  omega_n, zeta, omega_d,         \* modal properties
  x,             \* the step response, NoResponse before signal.step
  equations_text \* the lines of the equations panel

config == <<DESIRED_LOCATION, STARTING_POINT, K_P, K_I, K_D, DT, T_MAX>>
arrays == <<t, position, velocity, error>>
pidvars == <<config, arrays, integral, prev_error, i, results, frame, frame_seq, artists>>
params == <<m, b, k>>
modal == <<omega_n, zeta, omega_d>>
msdvars == <<params, modal, x, equations_text>>
vars == <<prog, pc, pidvars, msdvars>>

len(a) == Cardinality(DOMAIN a)
Empty == [j \in {} |-> Zero]

(***************************************************************************)
(* numpy helpers.                                                          *)
(***************************************************************************)
\* len(np.arange(start, stop, step)) for step # 0: ceil((stop-start)/step),
\* and 0 when that is negative
\* mutant: the stop value counted in, as np.linspace does
arange_len_inclusive(start, stop, step) ==
  LET q == RDiv(RSub(stop, start), step)
      n == (q[1] \div q[2]) + 1
  IN  IF n < 0 THEN 0 ELSE n

\* mutant: the length truncated instead of rounded up
arange_len_truncated(start, stop, step) ==
  LET q == RDiv(RSub(stop, start), step)
      n == q[1] \div q[2]
  IN  IF n < 0 THEN 0 ELSE n

arange_len(start, stop, step) ==
  LET n == Ceil(RDiv(RSub(stop, start), step))
  IN  IF n < 0 THEN 0 ELSE n

\* np.arange(start, stop, step): element j is start + j*step
arange(start, stop, step) ==
  [j \in 0..(arange_len(start, stop, step) - 1) |->
      RAdd(start, RMul(Rat(j, 1), step))]

\* np.zeros(n)
zeros(n) == [j \in 0..(n - 1) |-> Zero]

num_frames == len(t)

(***************************************************************************)
(* pid_controller(error, integral, prev_error, dt): <<output, integral>>   *)
(***************************************************************************)
\* mutant: the integral term taken before the accumulator is updated
pid_controller_stale(e, integ, prev, dt) ==
  LET proportional == RMul(K_P, e)
      integ2 == RAdd(integ, RMul(e, dt))
      derivative == RDiv(RMul(K_D, RSub(e, prev)), dt)
      output == RAdd(RAdd(proportional, RMul(K_I, integ)), derivative)
  IN  <<output, integ2>>

\* mutant: the control output with its sign reversed
pid_controller_reversed(e, integ, prev, dt) ==
  LET proportional == RMul(K_P, e)
      integ2 == RAdd(integ, RMul(e, dt))
      derivative == RDiv(RMul(K_D, RSub(e, prev)), dt)
      output == RAdd(RAdd(proportional, RMul(K_I, integ2)), derivative)
  IN  <<RSub(Zero, output), integ2>>

pid_controller(e, integ, prev, dt) ==
  LET proportional == RMul(K_P, e)
      integ2 == RAdd(integ, RMul(e, dt))
      derivative == RDiv(RMul(K_D, RSub(e, prev)), dt)
      output == RAdd(RAdd(proportional, RMul(K_I, integ2)), derivative)
  IN  <<output, integ2>>

(***************************************************************************)
(* Initial state: the module has been imported with some configuration.    *)
(***************************************************************************)
Targets == {Rat(n, 1) : n \in -1..MaxTarget}
Starts == {Zero, One}
Gains == {Zero, Rat(1, 2), One, Rat(2, 1)}
Steps == {Rat(-1, 2), Zero, Rat(1, 2), One}
Spans == {Rat(-1, 1), Zero} \cup {Rat(n, 2) : n \in 1..MaxTicks}

NoArtists == [person_x |-> STARTING_POINT, shown |-> 0]
NoResponse == <<>>

PidIdle ==
  /\ t = Empty /\ position = Empty /\ velocity = Empty /\ error = Empty
  /\ integral = Zero
  /\ prev_error = Zero
  /\ i = 0
  /\ results = <<>>
  /\ frame = -1
  /\ frame_seq = 0
  /\ artists = NoArtists

MsdIdle ==
  /\ omega_n = Unset /\ zeta = Unset /\ omega_d = Unset
  /\ x = NoResponse
  /\ equations_text = <<>>

InitPid ==
  /\ prog = "pid_walking"
  /\ pc = "idle"
  /\ DESIRED_LOCATION \in Targets
  /\ STARTING_POINT \in Starts
  /\ K_P \in Gains
  /\ K_I \in {Zero, One}
  /\ K_D \in {Zero, Rat(1, 2)}
  /\ DT \in Steps
  /\ T_MAX \in Spans
  /\ PidIdle
  /\ m = Fin(0) /\ b = Fin(0) /\ k = Fin(0)
  /\ MsdIdle

\* damping values that put zeta within a few units of 1 when m = k = 1
NearCritical == {Fix(2) + 2 * j : j \in -MaxOffset..MaxOffset}
Masses == {Fix(-1), Fix(0), Fix(1)}
Dampings == {Fix(-1), Fix(0), Fix(4), Fix(5), Fix(9)} \cup NearCritical
Stiffnesses == {Fix(-1), Fix(0), Fix(1), Fix(20)}

InitMsd ==
  /\ prog \in {"mass_spring_damper", "practice"}
  /\ pc = "params"
  /\ m \in {Fin(n) : n \in Masses}
  /\ b \in {Fin(n) : n \in Dampings}
  /\ k \in {Fin(n) : n \in Stiffnesses}
  /\ MsdIdle
  /\ DESIRED_LOCATION = Zero /\ STARTING_POINT = Zero
  /\ K_P = Zero /\ K_I = Zero /\ K_D = Zero
  /\ DT = Zero /\ T_MAX = Zero
  /\ PidIdle

Init == InitPid \/ InitMsd

(***************************************************************************)
(* simulate_pid_control, lines 40-48: entry.  np.arange divides by the     *)
(* step, so DT = 0 raises before any array exists.                         *)
(***************************************************************************)
\* mutant: the accumulator kept from the previous call
integral0_kept == integral

integral0 == Zero

Call ==
  /\ prog = "pid_walking"
  /\ pc \in {"idle", "returned"}
  /\ Len(results) < MaxRuns
  /\ IF DT = Zero
       THEN /\ pc' = "raised"
            /\ UNCHANGED <<prog, pidvars, msdvars>>
       ELSE /\ t' = arange(Zero, T_MAX, DT)
            /\ position' = zeros(len(t'))
            /\ velocity' = zeros(len(t'))
            /\ error' = zeros(len(t'))
            /\ integral' = integral0
            /\ prev_error' = RSub(DESIRED_LOCATION, STARTING_POINT)
            /\ i' = 0
            /\ pc' = "loop"
            /\ UNCHANGED <<prog, config, results, frame, frame_seq, artists, msdvars>>

(***************************************************************************)
(* simulate_pid_control, lines 51-65: one iteration of the loop.           *)
(***************************************************************************)
Step ==
  /\ pc = "loop"
  /\ i < num_frames
  /\ LET e == RSub(DESIRED_LOCATION, position[i])
         r == pid_controller(e, integral, prev_error, DT)
     IN  /\ error' = [error EXCEPT ![i] = e]
         /\ velocity' = [velocity EXCEPT ![i] = r[1]]
         /\ integral' = r[2]
         /\ position' = IF i < num_frames - 1
                          THEN [position EXCEPT ![i + 1] = RAdd(position[i], RMul(r[1], DT))]
                          ELSE position
         /\ prev_error' = e
  /\ i' = i + 1
  /\ UNCHANGED <<prog, config, pc, t, results, frame, frame_seq, artists, msdvars>>

(***************************************************************************)
(* simulate_pid_control, line 67: return t, position, velocity, error.     *)
(***************************************************************************)
Return ==
  /\ pc = "loop"
  /\ i = num_frames
  /\ pc' = "returned"
  /\ results' = Append(results, arrays)
  /\ UNCHANGED <<prog, config, arrays, integral, prev_error, i, frame, frame_seq, artists, msdvars>>

(***************************************************************************)
(* main, lines 243-249: create_animation_plot scales the velocity and      *)
(* error axes by max(abs(array)), which raises on an empty array.          *)
(***************************************************************************)
CreatePlot ==
  /\ prog = "pid_walking"
  /\ pc = "returned"
  /\ pc' = IF num_frames = 0 THEN "raised" ELSE "plotted"
  /\ artists' = NoArtists
  /\ UNCHANGED <<prog, config, arrays, integral, prev_error, i, results, frame, frame_seq, msdvars>>

(***************************************************************************)
(* animate(frame, ...), lines 182-237: reads the four arrays at `frame`    *)
(* and sets the artists.                                                   *)
(***************************************************************************)
animate(f) ==
  [person_x |-> RAdd(STARTING_POINT, position[f]),
   shown |-> f + 1,
   marker |-> <<t[f], position[f], velocity[f], error[f]>>]

\* mutant: one frame too many
frame_count_plus_one == num_frames + 1

\* main, line 259: frames=num_frames
frame_count == num_frames

\* one call of the lambda of main, line 255; an index past the arrays raises
Draw(f) ==
  /\ frame' = f
  /\ IF f \in DOMAIN t
       THEN artists' = animate(f)
       ELSE UNCHANGED artists

\* FuncAnimation draws the first frame of a fresh iterator when it starts
InitDraw ==
  /\ prog = "pid_walking"
  /\ pc = "plotted"
  /\ Draw(0)
  /\ pc' = IF 0 \in DOMAIN t THEN "animating" ELSE "raised"
  /\ frame_seq' = 0
  /\ UNCHANGED <<prog, config, arrays, integral, prev_error, i, results, msdvars>>

\* each timer tick draws the next index of range(frames); when the range is
\* exhausted, repeat=True draws the first frame again and starts a new range
Tick ==
  /\ prog = "pid_walking"
  /\ pc = "animating"
  /\ LET f == IF frame_seq < frame_count THEN frame_seq ELSE 0
     IN  /\ Draw(f)
         /\ pc' = IF f \in DOMAIN t THEN "animating" ELSE "raised"
  /\ frame_seq' = IF frame_seq < frame_count THEN frame_seq + 1 ELSE 0
  /\ UNCHANGED <<prog, config, arrays, integral, prev_error, i, results, msdvars>>

(***************************************************************************)
(* mass_spring_damper.py, lines 14-16: the modal properties.  k / m is a   *)
(* division of Python floats and raises ZeroDivisionError for m = 0; the   *)
(* rest are numpy scalars, which yield nan or inf.                         *)
(***************************************************************************)
Two == Fin(Fix(2))
Unity == Fin(Fix(1))

natural_frequency == NSqrt(NDiv(k, m))
damping_ratio == NDiv(b, NMul(Two, NSqrt(NMul(m, k))))
damped_frequency(wn, z) ==
  IF NLt(z, Unity) THEN NMul(wn, NSqrt(NSub(Unity, NMul(z, z)))) ELSE Fin(0)

ModalProperties ==
  /\ prog = "mass_spring_damper"
  /\ pc = "params"
  /\ IF IsZero(m)
       THEN /\ pc' = "raised"
            /\ UNCHANGED modal
       ELSE /\ omega_n' = natural_frequency
            /\ zeta' = damping_ratio
            /\ omega_d' = damped_frequency(omega_n', zeta')
            /\ pc' = "modal"
  /\ UNCHANGED <<prog, pidvars, params, x, equations_text>>

(***************************************************************************)
(* Lines 19-28 (practice script: 11-20): the transfer function 1 / (m s^2  *)
(* + b s + k) and its step response on np.linspace(0, 5, 500).  scipy      *)
(* drops the leading zeros of the denominator and rejects one that is all  *)
(* zero.  The response is kept as what it was computed from.               *)
(***************************************************************************)
Samples == 500

RECURSIVE trim_zeros(_)
trim_zeros(den) ==
  IF den # <<>> /\ IsZero(Head(den)) THEN trim_zeros(Tail(den)) ELSE den

step(den) == [den |-> trim_zeros(den), samples |-> Samples]

StepResponse ==
  /\ \/ prog = "mass_spring_damper" /\ pc = "modal"
     \/ prog = "practice" /\ pc = "params"
  /\ IF trim_zeros(<<m, b, k>>) = <<>>
       THEN /\ pc' = "raised"
            /\ UNCHANGED x
       ELSE /\ x' = step(<<m, b, k>>)
            /\ pc' = IF prog = "practice" THEN "done" ELSE "response"
  /\ UNCHANGED <<prog, pidvars, params, modal, equations_text>>

(***************************************************************************)
(* Lines 100-115: the equations panel reports omega_n and zeta, then       *)
(* either omega_d or a damping label.                                      *)
(***************************************************************************)
Tolerance == Scale \div 10^6

classification(z) ==
  IF NLt(z, Unity)
    THEN "damped natural frequency"
    ELSE IF NLt(NAbs(NSub(z, Unity)), Fin(Tolerance))
           THEN "critically damped"
           ELSE "overdamped"

EquationsText ==
  /\ prog = "mass_spring_damper"
  /\ pc = "response"
  /\ equations_text' =
       <<[line |-> "natural frequency", value |-> omega_n],
         [line |-> "damping ratio", value |-> zeta],
         [line |-> classification(zeta),
          value |-> IF NLt(zeta, Unity) THEN omega_d ELSE Unset]>>
  /\ pc' = "done"
  /\ UNCHANGED <<prog, pidvars, params, modal, x>>

Next ==
  \/ Call \/ Step \/ Return
  \/ CreatePlot \/ InitDraw \/ Tick
  \/ ModalProperties \/ StepResponse \/ EquationsText

Spec == Init /\ [][Next]_vars

\* The same program with STARTING_POINT as the source sets it (line 9).
InitOrigin == Init /\ STARTING_POINT = Zero
SpecOrigin == InitOrigin /\ [][Next]_vars

(***************************************************************************)
(* Properties.                                                             *)
(***************************************************************************)
Pid == prog = "pid_walking"
ValidClock == RLt(Zero, DT) /\ RLt(Zero, T_MAX)
NoGains == K_P = Zero /\ K_I = Zero /\ K_D = Zero
Returned == {results[r] : r \in 1..Len(results)}
\* the arrays of a returned tuple
Time(res) == res[1]
Position(res) == res[2]
Velocity(res) == res[3]
Error(res) == res[4]

\* C1: for every configuration with dt > 0 and T_max > 0, the four returned
\* sequences all have length N = ceil(T_max / dt).
C1_EqualLengths ==
  (Pid /\ ValidClock) =>
    \A res \in Returned :
      \A a \in 1..4 : len(res[a]) = Ceil(RDiv(T_MAX, DT))

\* a run has returned whose span is not a whole number of steps
C1_Witness ==
  /\ Pid /\ ValidClock /\ results # <<>>
  /\ RMul(Rat(Ceil(RDiv(T_MAX, DT)), 1), DT) # T_MAX
  /\ len(Time(results[1])) = 2

\* C2: with Kp = Ki = Kd = 0, for every target and start, velocity[i] = 0
\* and position[i] = start in every frame of a returned run.
C2_NoGainNoMotion ==
  (Pid /\ NoGains) =>
    \A res \in Returned : \A j \in DOMAIN Time(res) :
      Velocity(res)[j] = Zero /\ Position(res)[j] = STARTING_POINT

\* the precondition of C3: a stable proportional-only loop, target # start
ProportionalStable ==
  /\ Pid
  /\ K_I = Zero /\ K_D = Zero /\ RLt(Zero, K_P)
  /\ RLt(RAbs(RSub(One, RMul(K_P, DT))), One)
  /\ DESIRED_LOCATION # STARTING_POINT

\* C3 as stated: under ProportionalStable the error magnitude strictly
\* decreases every frame, |error[i+1]| < |error[i]| for all i < N-1.
C3_StrictDecrease ==
  ProportionalStable =>
    \A res \in Returned : \A j \in DOMAIN Time(res) :
      (j + 1) \in DOMAIN Time(res) =>
        RLt(RAbs(Error(res)[j + 1]), RAbs(Error(res)[j]))

\* C3 amended: under ProportionalStable, error[i+1] = (1 - Kp*dt) * error[i]
\* for all i < N-1, so the magnitude strictly decreases while the error is
\* not 0 and the error stays 0 once it is 0 (from frame 1 on when
\* Kp*dt = 1); position never moves away from target.
C3_Contraction ==
  ProportionalStable =>
    \A res \in Returned : \A j \in DOMAIN Time(res) :
      (j + 1) \in DOMAIN Time(res) =>
        LET e0 == Error(res)[j]
            e1 == Error(res)[j + 1]
        IN  /\ e1 = RMul(RSub(One, RMul(K_P, DT)), e0)
            /\ e0 # Zero => RLt(RAbs(e1), RAbs(e0))
            /\ e0 = Zero => e1 = Zero
            /\ RLe(RAbs(RSub(DESIRED_LOCATION, Position(res)[j + 1])),
                   RAbs(RSub(DESIRED_LOCATION, Position(res)[j])))

\* a stable run of three frames or more whose error is still shrinking
C3_Witness ==
  /\ ProportionalStable /\ results # <<>>
  /\ LET e == Error(results[1])
     IN  /\ len(e) >= 3
         /\ e[2] # Zero
         /\ RLt(RAbs(e[2]), RAbs(e[1])) /\ RLt(RAbs(e[1]), RAbs(e[0]))

\* C4: when dt <= 0 or T_max <= 0 the PID engine reports a configuration
\* error before the first step: it runs no frame and never returns
\* sequences, empty or not, as a normal result.
C4_ConfigurationError ==
  (Pid /\ (RLe(DT, Zero) \/ RLe(T_MAX, Zero))) =>
    /\ i = 0
    /\ pc # "returned"
    /\ results = <<>>

\* C5: when m <= 0 or m*k <= 0 the second-order engine rejects the
\* configuration or reports the modal properties as undefined; it computes
\* neither a step response nor a classification.
Degenerate ==
  \/ m[2] <= 0
  \/ m[2] > 0 /\ k[2] <= 0

C5_DegenerateRejected ==
  (prog = "mass_spring_damper" /\ Degenerate) =>
    /\ x = NoResponse
    /\ equations_text = <<>>

\* C6: the label is 'critically damped' whenever |zeta - 1| < 1e-6, on
\* either side of 1; the damped natural frequency omega_n * sqrt(1 - zeta^2)
\* is reported for the remaining zeta < 1; 'overdamped' for the remaining
\* zeta > 1.
C6_ClassificationRule ==
  (equations_text # <<>> /\ IsFin(zeta)) =>
    LET last == equations_text[Len(equations_text)]
    IN  IF Abs(zeta[2] - Fix(1)) < Tolerance
          THEN last.line = "critically damped"
          ELSE IF zeta[2] < Fix(1)
                 THEN /\ last.line = "damped natural frequency"
                      /\ last.value =
                           NMul(omega_n, NSqrt(NSub(Unity, NMul(zeta, zeta))))
                 ELSE last.line = "overdamped"

\* C7: two calls of simulate_pid_control with the same configuration return
\* identical time, position, velocity and error sequences.
C7_RerunIdentical ==
  \A r1, r2 \in 1..Len(results) : results[r1] = results[r2]

\* a second call has returned after a first one that left a nonzero
\* integral accumulator behind
C7_Witness ==
  /\ Pid /\ Len(results) = 2 /\ pc = "returned"
  /\ K_I # Zero /\ integral # Zero
  /\ len(Time(results[2])) >= 2
  /\ Velocity(results[2])[1] # Zero

\* C8: on a valid clock the returned time sequence is time[i] = i*dt for
\* every i in 0..N-1: it starts at 0, is strictly increasing, is evenly
\* spaced by dt, and its last element is strictly less than T_max.
C8_ArithmeticTime ==
  (Pid /\ ValidClock) =>
    \A res \in Returned :
      LET tm == Time(res)
          n == len(tm)
      IN  /\ n >= 1
          /\ DOMAIN tm = 0..(n - 1)
          /\ tm[0] = Zero
          /\ \A j \in DOMAIN tm : tm[j] = RMul(Rat(j, 1), DT)
          /\ \A j \in 1..(n - 1) :
               RLt(tm[j - 1], tm[j]) /\ RSub(tm[j], tm[j - 1]) = DT
          /\ RLt(tm[n - 1], T_MAX)

\* a returned time sequence of three samples or more whose next sample
\* would be T_max itself
C8_Witness ==
  /\ Pid /\ ValidClock /\ results # <<>>
  /\ LET tm == Time(results[1])
     IN  /\ len(tm) >= 3
         /\ RAdd(tm[len(tm) - 1], DT) = T_MAX

\* C9: every call of animate gets a frame index in 0..N-1 and leaves the
\* four trajectory sequences unchanged.
AnimateReadsOnly ==
  pc \in {"plotted", "animating"} =>
    /\ frame' \in 0..(num_frames - 1)
    /\ arrays' = arrays

C9_AnimateReadsOnly == [][AnimateReadsOnly]_vars

\* the animation has drawn the last frame of a run of two frames or more
C9_Witness ==
  /\ pc = "animating"
  /\ num_frames >= 2
  /\ frame = num_frames - 1
  /\ frame_seq = num_frames
  /\ artists.shown = num_frames
  /\ artists.marker[2] = position[num_frames - 1]

\* C10: in frame i, error[i] = target - position[i]; the integral grows by
\* error[i]*dt, unclamped; velocity[i] = Kp*error[i] + Ki*integral +
\* Kd*(error[i] - previous_error)/dt with the grown integral; for i < N-1
\* position[i+1] = position[i] + velocity[i]*dt, and in frame N-1 the
\* velocity is computed and no position is written.
FrameRecurrence ==
  (pc = "loop" /\ i' = i + 1) =>
    LET e == error'[i]
        v == velocity'[i]
    IN  /\ i \in 0..(num_frames - 1)
        /\ e = RSub(DESIRED_LOCATION, position[i])
        /\ integral' = RAdd(integral, RMul(e, DT))
        /\ v = RAdd(RAdd(RMul(K_P, e), RMul(K_I, integral')),
                    RDiv(RMul(K_D, RSub(e, prev_error)), DT))
        /\ DOMAIN position' = 0..(num_frames - 1)
        /\ IF i < num_frames - 1
             THEN /\ position'[i + 1] = RAdd(position[i], RMul(v, DT))
                  /\ \A j \in DOMAIN position :
                       j # i + 1 => position'[j] = position[j]
             ELSE position' = position

C10_FrameRecurrence == [][FrameRecurrence]_vars

\* the loop has finished a run of two frames or more in which all three
\* terms acted and the accumulator outgrew the target
C10_Witness ==
  /\ pc = "loop" /\ i = num_frames /\ num_frames >= 2
  /\ K_P # Zero /\ K_I # Zero /\ K_D # Zero
  /\ velocity[num_frames - 1] # Zero
  /\ RLt(RAbs(DESIRED_LOCATION), RAbs(integral))

\* C11: the previous_error used at frame 0 is target - start and equals
\* error[0], so the derivative term of frame 0 is 0 for every Kd, target
\* and start; the previous_error used at a frame i > 0 is error[i-1].
\* Stated on a valid clock, where a frame is about to run: the loop is at
\* index i.
C11_PreviousError ==
  (Pid /\ ValidClock /\ pc = "loop" /\ i < num_frames) =>
    IF i = 0
      THEN LET e == RSub(DESIRED_LOCATION, position[0])
           IN  /\ prev_error = RSub(DESIRED_LOCATION, STARTING_POINT)
               /\ prev_error = e
               /\ RDiv(RMul(K_D, RSub(e, prev_error)), DT) = Zero
      ELSE prev_error = error[i - 1]

====
